---- MODULE Spec2Model ----
(***************************************************************************)
(* A model of ci-lark-notification (src/main.go): one run of main(), from  *)
(* reading the environment to the single HTTP POST to the Lark webhook and *)
(* the interpretation of its response.                                     *)
(*                                                                         *)
(* Strings are TLA+ strings; positions in them are read with Len and       *)
(* SubSeq, bytes of the Go string being the characters of the model.       *)
(* The environment is a function from the names of the variables that are  *)
(* set to their values; an unset variable is outside its domain.           *)
(***************************************************************************)
EXTENDS Integers, Sequences, FiniteSets, TLC

VARIABLES
    env,            \* the process environment (os.Getenv reads it)
    osExitStub,     \* TRUE when osExit is replaced by a stub that returns
    pc,             \* position of the run in main() / sendMessage()
    projectVersion, \* main's local projectVersion
    message,        \* main's local message (map[string]any)
    built,          \* the message variants constructed so far, in order
    messageBytes,   \* main's local messageBytes (the serialized payload)
    posts,          \* the HTTP requests issued so far, in order
    resp,           \* the outcome of http.Post (err, resp)
    body,           \* sendMessage's local body
    exitCalls,      \* the codes osExit was called with, in order
    exitStatus,     \* the exit status of the process, NoExit while it runs
    stdout          \* what was printed, in order (one label per Print call)

vars == <<env, osExitStub, pc, projectVersion, message, built, messageBytes,
          posts, resp, body, exitCalls, exitStatus, stdout>>

-----------------------------------------------------------------------------
(* Bounds of the model. *)

\* PLUGIN_BUTTONS ranges over the comma-separated lists of 1..MaxButtonNames
\* of the names in ButtonNameTokens.
MaxButtonNames == 2

\* The longest list of names in PLUGIN_VARIABLES.
MaxVariableNames == 3

\* CI_COMMIT_SHA ranges over the prefixes of ShaDigits of length 1..MaxShaLen.
MaxShaLen == 8

\* time.Now().Unix() ranges over 0..MaxUnixTime.
MaxUnixTime == 2

-----------------------------------------------------------------------------
(* Program constants. *)

\* net/http's StatusOK, compared with resp.StatusCode.
StatusOK == 200

\* The upper bound of the slice expression sha[:7].
ShortShaLen == 7

\* crypto/sha256's Size: the length in bytes of h.Sum(nil).
Sha256Size == 32

\* The status with which the Go runtime ends a process that panics.
PanicStatus == 2

\* exitStatus while the process is still running.
NoExit == 0 - 1

-----------------------------------------------------------------------------
(* The environment. *)

\* os.Getenv: the value of a variable, "" when it is not set.
Getenv(key) == IF key \in DOMAIN env THEN env[key] ELSE ""

getEnvOrDefault(key, defaultValue) ==
    IF Getenv(key) # "" THEN Getenv(key) ELSE defaultValue

-----------------------------------------------------------------------------
(* Go's strings package, on single-character separators. *)

Char(s, i) == SubSeq(s, i, i)

\* strings.Index: the first position of the character c in s, 0 when absent.
IndexOf(s, c) ==
    IF \E i \in 1..Len(s) : Char(s, i) = c
    THEN CHOOSE i \in 1..Len(s) :
            Char(s, i) = c /\ \A j \in 1..(i - 1) : Char(s, j) # c
    ELSE 0

\* strings.Split(s, sep): never empty, Split("", sep) is <<"">>.
RECURSIVE Split(_, _)
Split(s, sep) ==
    IF IndexOf(s, sep) = 0
    THEN <<s>>
    ELSE <<SubSeq(s, 1, IndexOf(s, sep) - 1)>>
            \o Split(SubSeq(s, IndexOf(s, sep) + 1, Len(s)), sep)

IsSpace(c) == c \in {" ", "\t", "\n", "\r", "\f"}

\* strings.TrimSpace
RECURSIVE TrimSpace(_)
TrimSpace(s) ==
    IF s = "" THEN ""
    ELSE IF IsSpace(Char(s, 1)) THEN TrimSpace(SubSeq(s, 2, Len(s)))
    ELSE IF IsSpace(Char(s, Len(s))) THEN TrimSpace(SubSeq(s, 1, Len(s) - 1))
    ELSE s

\* strings.Contains
Contains(s, substr) ==
    \E i \in 1..(Len(s) - Len(substr) + 1) :
        SubSeq(s, i, i + Len(substr) - 1) = substr

\* strconv.FormatInt(n, 10) for n >= 0
Digit(d) == SubSeq("0123456789", d + 1, d + 1)

RECURSIVE FormatInt(_)
FormatInt(n) ==
    IF n < 10 THEN Digit(n) ELSE FormatInt(n \div 10) \o Digit(n % 10)

-----------------------------------------------------------------------------
(* The signature, lines 68-72.  SHA-256 is not computed: the digest is the *)
(* term HMAC-SHA256(key, data), two digests being equal exactly when their *)
(* keys and data are, and the Base64 text is the term of its digest with   *)
(* the length base64.StdEncoding gives it.                                 *)

\* hmac.New(sha256.New, key), h.Write(data)..., h.Sum(nil)
HmacSha256(key, data) ==
    [alg |-> "HMAC-SHA256", key |-> key, data |-> data, size |-> Sha256Size]

\* base64.StdEncoding.EncodeToString: 4 characters for every 3 bytes, padded.
Base64Std(digest) ==
    [enc |-> "base64", of |-> digest, len |-> 4 * ((digest.size + 2) \div 3)]

generateSignature(timestamp, secret) ==
    LET stringToSign == timestamp \o "\n" \o secret
    IN  Base64Std(HmacSha256(stringToSign, ""))

-----------------------------------------------------------------------------
(* Version resolution, lines 74-82.  The result is [panic, value]: the     *)
(* slice expression sha[:7] panics (slice bounds out of range) when sha    *)
(* has fewer than 7 bytes.                                                 *)

\* getProjectVersion preferring the SHA to the tag.
getProjectVersion_ShaFirst ==
    IF getEnvOrDefault("CI_COMMIT_SHA", "") # ""
    THEN LET sha == getEnvOrDefault("CI_COMMIT_SHA", "")
         IN  IF Len(sha) < ShortShaLen
             THEN [panic |-> TRUE, value |-> ""]
             ELSE [panic |-> FALSE, value |-> SubSeq(sha, 1, ShortShaLen)]
    ELSE [panic |-> FALSE, value |-> getEnvOrDefault("CI_COMMIT_TAG", "")]

getProjectVersion ==
    IF getEnvOrDefault("CI_COMMIT_TAG", "") # ""
    THEN [panic |-> FALSE, value |-> getEnvOrDefault("CI_COMMIT_TAG", "")]
    ELSE IF getEnvOrDefault("CI_COMMIT_SHA", "") # ""
    THEN LET sha == getEnvOrDefault("CI_COMMIT_SHA", "")
         IN  IF Len(sha) < ShortShaLen
             THEN [panic |-> TRUE, value |-> ""]
             ELSE [panic |-> FALSE, value |-> SubSeq(sha, 1, ShortShaLen)]
    ELSE [panic |-> FALSE, value |-> ""]

-----------------------------------------------------------------------------
(* The message builders, lines 84-285.  The emoji of the source are        *)
(* written as their short codes, the bullet of the variables list as "*"   *)
(* and the backquotes around a variable's name as quotes.                  *)

AlertIcon == ":rotating_light:"
CheckIcon == ":white_check_mark:"

\* ResolvedStatus with the precedence reversed: the pipeline's status wins.
ResolvedStatus_PipelineFirst ==
    getEnvOrDefault("DRONE_BUILD_STATUS", getEnvOrDefault("PLUGIN_STATUS", ""))

\* Lines 86 and 174: PLUGIN_STATUS overrides DRONE_BUILD_STATUS.
ResolvedStatus ==
    getEnvOrDefault("PLUGIN_STATUS", getEnvOrDefault("DRONE_BUILD_STATUS", ""))

Button(content, type, url) ==
    [tag |-> "button", text |-> [content |-> content, tag |-> "plain_text"],
     type |-> type, url |-> url]

\* BuiltButtons appending the pipeline button last.
BuiltButtons_PipelineLast ==
    LET pipelineURL == getEnvOrDefault("CI_PIPELINE_URL", "")
        tag         == getEnvOrDefault("CI_COMMIT_TAG", "")
        repoURL     == getEnvOrDefault("CI_REPO_URL", "")
        commitURL   == getEnvOrDefault("CI_PIPELINE_FORGE_URL", "")
        pipeline    == IF pipelineURL # ""
                       THEN <<Button("View Pipeline", "primary", pipelineURL)>>
                       ELSE <<>>
        second      == IF tag # ""
                       THEN IF repoURL # ""
                            THEN <<Button("View Release", "default",
                                          repoURL \o "/releases/tag/" \o tag)>>
                            ELSE <<>>
                       ELSE IF commitURL # ""
                            THEN <<Button("View Commit", "default", commitURL)>>
                            ELSE <<>>
    IN  second \o pipeline

\* BuiltButtons with the commit button as the alternative of the release
\* button: appended whenever no release button was.
BuiltButtons_CommitUnlessRelease ==
    LET pipelineURL == getEnvOrDefault("CI_PIPELINE_URL", "")
        tag         == getEnvOrDefault("CI_COMMIT_TAG", "")
        repoURL     == getEnvOrDefault("CI_REPO_URL", "")
        commitURL   == getEnvOrDefault("CI_PIPELINE_FORGE_URL", "")
        pipeline    == IF pipelineURL # ""
                       THEN <<Button("View Pipeline", "primary", pipelineURL)>>
                       ELSE <<>>
        second      == IF tag # "" /\ repoURL # ""
                       THEN <<Button("View Release", "default",
                                     repoURL \o "/releases/tag/" \o tag)>>
                       ELSE IF commitURL # ""
                            THEN <<Button("View Commit", "default", commitURL)>>
                            ELSE <<>>
    IN  pipeline \o second

\* BuiltButtons with the release and the commit button decided separately.
BuiltButtons_ReleaseAndCommit ==
    LET pipelineURL == getEnvOrDefault("CI_PIPELINE_URL", "")
        tag         == getEnvOrDefault("CI_COMMIT_TAG", "")
        repoURL     == getEnvOrDefault("CI_REPO_URL", "")
        commitURL   == getEnvOrDefault("CI_PIPELINE_FORGE_URL", "")
        pipeline    == IF pipelineURL # ""
                       THEN <<Button("View Pipeline", "primary", pipelineURL)>>
                       ELSE <<>>
        release     == IF tag # "" /\ repoURL # ""
                       THEN <<Button("View Release", "default",
                                     repoURL \o "/releases/tag/" \o tag)>>
                       ELSE <<>>
        commit      == IF commitURL # ""
                       THEN <<Button("View Commit", "default", commitURL)>>
                       ELSE <<>>
    IN  pipeline \o release \o commit

\* Lines 215-258: the buttons before filtering.
BuiltButtons ==
    LET pipelineURL == getEnvOrDefault("CI_PIPELINE_URL", "")
        tag         == getEnvOrDefault("CI_COMMIT_TAG", "")
        repoURL     == getEnvOrDefault("CI_REPO_URL", "")
        commitURL   == getEnvOrDefault("CI_PIPELINE_FORGE_URL", "")
        pipeline    == IF pipelineURL # ""
                       THEN <<Button("View Pipeline", "primary", pipelineURL)>>
                       ELSE <<>>
        second      == IF tag # ""
                       THEN IF repoURL # ""
                            THEN <<Button("View Release", "default",
                                          repoURL \o "/releases/tag/" \o tag)>>
                            ELSE <<>>
                       ELSE IF commitURL # ""
                            THEN <<Button("View Commit", "default", commitURL)>>
                            ELSE <<>>
    IN  pipeline \o second

\* ButtonMatches that also takes a capitalised name.
ButtonMatches_FoldCase(name, action) ==
    LET content == action.text.content
    IN  \/ name \in {"pipeline", "Pipeline"} /\ Contains(content, "Pipeline")
        \/ name \in {"commit", "Commit"} /\ Contains(content, "Commit")
        \/ name \in {"release", "Release"} /\ Contains(content, "Release")

\* Lines 271-273: does the allow-list name select the button?
ButtonMatches(name, action) ==
    LET content == action.text.content
    IN  \/ name = "pipeline" /\ Contains(content, "Pipeline")
        \/ name = "commit" /\ Contains(content, "Commit")
        \/ name = "release" /\ Contains(content, "Release")

\* Lines 268-279: the inner loop appends the first button the name selects
\* and breaks.
FirstMatch(name, actions) ==
    LET hits == {i \in 1..Len(actions) : ButtonMatches(name, actions[i])}
    IN  IF hits = {} THEN <<>>
        ELSE <<actions[CHOOSE i \in hits : \A j \in hits : i <= j]>>

\* Lines 266-280: the outer loop over the allow-list, in its order.
RECURSIVE FilterButtons(_, _)
FilterButtons(buttonNames, actions) ==
    IF buttonNames = <<>> THEN <<>>
    ELSE FirstMatch(TrimSpace(Head(buttonNames)), actions)
            \o FilterButtons(Tail(buttonNames), actions)

createActionButtons ==
    LET requestedButtons == getEnvOrDefault("PLUGIN_BUTTONS", "")
    IN  IF requestedButtons # ""
        THEN FilterButtons(Split(requestedButtons, ","), BuiltButtons)
        ELSE BuiltButtons

\* CommitFirstLine without the split: the whole message.
CommitFirstLine_Whole == getEnvOrDefault("CI_COMMIT_MESSAGE", "")

\* strings.Split(CI_COMMIT_MESSAGE, "\n")[0], lines 118 and 190
CommitFirstLine == Split(getEnvOrDefault("CI_COMMIT_MESSAGE", ""), "\n")[1]

\* VariableLines that passes over an empty name.
RECURSIVE VariableLines_SkipEmpty(_, _, _)
VariableLines_SkipEmpty(names, before, after) ==
    IF names = <<>> THEN ""
    ELSE LET varName == TrimSpace(Head(names))
         IN  (IF varName = "" THEN ""
              ELSE before \o varName \o after \o getEnvOrDefault(varName, "") \o "\n")
                \o VariableLines_SkipEmpty(Tail(names), before, after)

\* Lines 131-134 (card) and 195-198 (text): one line per listed name.
RECURSIVE VariableLines(_, _, _)
VariableLines(names, before, after) ==
    IF names = <<>> THEN ""
    ELSE LET varName == TrimSpace(Head(names))
         IN  before \o varName \o after \o getEnvOrDefault(varName, "") \o "\n"
                \o VariableLines(Tail(names), before, after)

Div(content) == [tag |-> "div", text |-> [content |-> content, tag |-> "lark_md"]]

Hr == [tag |-> "hr"]

\* CardElements with the action section ahead of the variables block.
CardElements_ActionBeforeVariables(version) ==
    LET variables == getEnvOrDefault("PLUGIN_VARIABLES", "")
        actions   == createActionButtons
        fixed     == << Div("**Project:** " \o getEnvOrDefault("CI_REPO", "")
                            \o "\n**Branch:** " \o getEnvOrDefault("CI_COMMIT_BRANCH", "")
                            \o "\n**Author:** " \o getEnvOrDefault("CI_COMMIT_AUTHOR", "")
                            \o "\n**Version:** " \o version),
                        Hr,
                        Div("**Commit Message:**\n" \o CommitFirstLine) >>
        vars_     == IF variables # ""
                     THEN << Hr,
                             Div("**Variables:**\n"
                                 \o VariableLines(Split(variables, ","), "* '", "': ")) >>
                     ELSE <<>>
        action    == IF Len(actions) > 0
                     THEN << [tag |-> "action", actions |-> actions] >>
                     ELSE <<>>
    IN  fixed \o action \o vars_

\* Lines 99-152
CardElements(version) ==
    LET variables == getEnvOrDefault("PLUGIN_VARIABLES", "")
        actions   == createActionButtons
        fixed     == << Div("**Project:** " \o getEnvOrDefault("CI_REPO", "")
                            \o "\n**Branch:** " \o getEnvOrDefault("CI_COMMIT_BRANCH", "")
                            \o "\n**Author:** " \o getEnvOrDefault("CI_COMMIT_AUTHOR", "")
                            \o "\n**Version:** " \o version),
                        Hr,
                        Div("**Commit Message:**\n" \o CommitFirstLine) >>
        vars_     == IF variables # ""
                     THEN << Hr,
                             Div("**Variables:**\n"
                                 \o VariableLines(Split(variables, ","), "* '", "': ")) >>
                     ELSE <<>>
        action    == IF Len(actions) > 0
                     THEN << [tag |-> "action", actions |-> actions] >>
                     ELSE <<>>
    IN  fixed \o vars_ \o action

createLarkCard(version) ==
    LET failed      == ResolvedStatus = "failure"
        headerColor == IF failed THEN "red" ELSE "green"
        statusIcon  == IF failed THEN AlertIcon ELSE CheckIcon
        statusText  == IF failed THEN "Pipeline Failed" ELSE "Pipeline Succeeded"
        projectName == getEnvOrDefault("CI_REPO_NAME", "")
        headerTitle == projectName \o " - " \o statusIcon \o " " \o statusText
    IN  [msg_type |-> "interactive",
         card |-> [header |-> [title |-> [content |-> headerTitle,
                                          tag |-> "plain_text"],
                               template |-> headerColor],
                   elements |-> CardElements(version)]]

createLarkTextMessage(version) ==
    LET failed      == ResolvedStatus = "failure"
        statusIcon  == IF failed THEN AlertIcon ELSE CheckIcon
        statusText  == IF failed THEN "PIPELINE FAILED" ELSE "PIPELINE SUCCEEDED"
        variables   == getEnvOrDefault("PLUGIN_VARIABLES", "")
        pipelineURL == getEnvOrDefault("CI_PIPELINE_URL", "")
        text ==
            statusIcon \o " " \o statusText \o "\n\n"
            \o "Project: " \o getEnvOrDefault("CI_REPO", "") \o "\n"
            \o "Branch: " \o getEnvOrDefault("CI_COMMIT_BRANCH", "") \o "\n"
            \o "Author: " \o getEnvOrDefault("CI_COMMIT_AUTHOR", "") \o "\n"
            \o "Version: " \o version \o "\n"
            \o "Message: " \o CommitFirstLine \o "\n"
            \o (IF variables # ""
                THEN "\nVariables:\n"
                        \o VariableLines(Split(variables, ","), "* ", ": ")
                ELSE "")
            \o (IF pipelineURL # "" THEN "\nPipeline: " \o pipelineURL ELSE "")
    IN  [msg_type |-> "text", content |-> [text |-> text]]

-----------------------------------------------------------------------------
(* encoding/json as main and sendMessage use it.                           *)

\* The keys main's message can hold, in the (sorted) order json.Marshal
\* writes the keys of a map.
JSONKeyOrder == <<"card", "content", "msg_type", "sign", "timestamp">>

\* json.Marshal of a map[string]any of strings, maps and slices: it cannot
\* fail, and the payload is the object's members in key order.
jsonMarshal(m) ==
    LET keys == SelectSeq(JSONKeyOrder, LAMBDA k : k \in DOMAIN m)
    IN  [err |-> FALSE, bytes |-> [i \in 1..Len(keys) |-> <<keys[i], m[keys[i]]>>]]

\* JSON values of a response body: a number or a string.
Num(n) == [type |-> "number", num |-> n]
Str(t) == [type |-> "string", str |-> t]

\* A response body: its text and the JSON document the text denotes
\* (kind "invalid" when the text is not JSON).
JSONObject(text, members) == [text |-> text, json |-> [kind |-> "object", members |-> members]]
JSONOther(text, kind)     == [text |-> text, json |-> [kind |-> kind, members |-> <<>>]]

EmptyBody == JSONOther("", "invalid")

\* json.Unmarshal(body, &response) with response a map[string]any: an object
\* fills the map, null leaves it nil, anything else is an error.
jsonUnmarshal(b) ==
    IF b.json.kind = "object" THEN [err |-> FALSE, response |-> b.json.members]
    ELSE IF b.json.kind = "null" THEN [err |-> FALSE, response |-> <<>>]
    ELSE [err |-> TRUE, response |-> <<>>]

-----------------------------------------------------------------------------
(* The conditions of main and sendMessage. *)

\* useCard with every value but "false" selecting the card.
useCard_NotFalse == getEnvOrDefault("PLUGIN_USE_CARD", "true") # "false"

\* Line 33
useCard == getEnvOrDefault("PLUGIN_USE_CARD", "true") = "true"

\* WithSignature reading the clock a second time for the timestamp it signs.
WithSignature_SecondClockRead(m, now) ==
    LET secret == getEnvOrDefault("PLUGIN_SECRET", "")
    IN  IF secret # ""
        THEN [timestamp |-> FormatInt(now),
              sign |-> generateSignature(FormatInt(now + 1), secret)] @@ m
        ELSE m

\* Lines 43-48: the message after the signature step, now being
\* time.Now().Unix().
WithSignature(m, now) ==
    LET secret == getEnvOrDefault("PLUGIN_SECRET", "")
    IN  IF secret # ""
        THEN LET timestamp == FormatInt(now)
                 sign      == generateSignature(timestamp, secret)
             IN  [timestamp |-> timestamp, sign |-> sign] @@ m
        ELSE m

\* Line 308
BadStatus(statusCode) == statusCode # StatusOK

\* RemoteRejected without the type assertion: any code other than the
\* number 0 rejects.
RemoteRejected_AnyCode(b) ==
    LET parsed == jsonUnmarshal(b)
    IN  /\ ~parsed.err
        /\ "code" \in DOMAIN parsed.response
        /\ parsed.response["code"] # Num(0)

\* Lines 315-316: the body parses and holds a numeric code other than 0.
RemoteRejected(b) ==
    LET parsed == jsonUnmarshal(b)
    IN  /\ ~parsed.err
        /\ "code" \in DOMAIN parsed.response
        /\ parsed.response["code"].type = "number"
        /\ parsed.response["code"].num # 0

-----------------------------------------------------------------------------
(* The inputs of a run. *)

\* A variable that is unset, or set to one of vals.
Opt(key, vals) == {<<>>} \cup {key :> v : v \in vals}

ShaDigits == "abcdef1234567890"

WebhookURL == "https://open.larksuite.com/open-apis/bot/v2/hook/x"

\* The pipeline's variables that the runs below leave alone.
EnvBase ==
    [CI_REPO |-> "user/repo", CI_REPO_NAME |-> "repo",
     CI_COMMIT_BRANCH |-> "main", CI_COMMIT_AUTHOR |-> "dev",
     CI_COMMIT_MESSAGE |-> "line one\nline two",
     CI_PIPELINE_URL |-> "https://ci.example.com/repos/1/pipeline/2",
     CI_REPO_URL |-> "https://github.com/user/repo"]

\* Spec: the delivery settings, the tag and the SHA vary.
DeliveryEnvs ==
    {url @@ secret @@ card @@ tag @@ sha @@ [DRONE_BUILD_STATUS |-> "success"] @@ EnvBase :
        url    \in Opt("PLUGIN_WEBHOOK_URL", {"", WebhookURL}),
        secret \in Opt("PLUGIN_SECRET", {"s3cret"}),
        card   \in Opt("PLUGIN_USE_CARD", {"", "true", "false", "TRUE"}),
        tag    \in Opt("CI_COMMIT_TAG", {"v1.0.0"}),
        sha    \in Opt("CI_COMMIT_SHA", {SubSeq(ShaDigits, 1, n) : n \in 1..MaxShaLen})}

StatusValues == {"", "failure", "success", "Failure", "failed", "FAILURE"}

\* SpecStatus: the two status variables, the message format and the debug
\* setting vary.
StatusEnvs ==
    {url @@ debug @@ card @@ override @@ status
            @@ [CI_COMMIT_SHA |-> ShaDigits] @@ EnvBase :
        url      \in Opt("PLUGIN_WEBHOOK_URL", {WebhookURL}),
        debug    \in Opt("PLUGIN_DEBUG", {"true"}),
        card     \in Opt("PLUGIN_USE_CARD", {"false"}),
        override \in Opt("PLUGIN_STATUS", StatusValues),
        status   \in Opt("DRONE_BUILD_STATUS", StatusValues)}

\* The comma-separated lists of 1..n of the tokens.
RECURSIVE CommaLists(_, _)
CommaLists(tokens, n) ==
    IF n = 0 THEN {}
    ELSE tokens \cup {list \o "," \o t : list \in CommaLists(tokens, n - 1),
                                          t \in tokens}

\* The names of an allow-list: the three categories, one padded with
\* spaces, one in another case and one that names no category.
ButtonNameTokens == {"pipeline", "commit", "release", " release ", "Pipeline", "build"}

PipelineURL == "https://ci.example.com/repos/1/pipeline/2"
RepoURL     == "https://github.com/user/repo"
ForgeURL    == "https://github.com/user/repo/commit/abcdef1234567890"

\* SpecButtons: the three URLs, the tag and the allow-list vary; the
\* message is the card.
ButtonEnvs ==
    {pipeline @@ repo @@ forge @@ tag @@ buttons
            @@ [PLUGIN_WEBHOOK_URL |-> WebhookURL, CI_REPO |-> "user/repo",
                CI_REPO_NAME |-> "repo", CI_COMMIT_BRANCH |-> "main",
                CI_COMMIT_AUTHOR |-> "dev", CI_COMMIT_MESSAGE |-> "fix: typo",
                CI_COMMIT_SHA |-> ShaDigits, DRONE_BUILD_STATUS |-> "success"] :
        pipeline \in Opt("CI_PIPELINE_URL", {PipelineURL}),
        repo     \in Opt("CI_REPO_URL", {RepoURL}),
        forge    \in Opt("CI_PIPELINE_FORGE_URL", {ForgeURL}),
        tag      \in Opt("CI_COMMIT_TAG", {"v1.0.0"}),
        buttons  \in Opt("PLUGIN_BUTTONS",
                         {""} \cup CommaLists(ButtonNameTokens, MaxButtonNames))}

\* The names of PLUGIN_VARIABLES: a set or unset variable, one padded with
\* spaces, and the empty name two adjacent commas leave.
VariableNameTokens == {"FOO", " BAR ", ""}

\* SpecContent: the commit message, the list of variables, one listed
\* variable, the message format and the buttons vary.
ContentEnvs ==
    {msg @@ card @@ variables @@ foo @@ pipeline @@ buttons
            @@ [PLUGIN_WEBHOOK_URL |-> WebhookURL, CI_REPO |-> "user/repo",
                CI_REPO_NAME |-> "repo", CI_COMMIT_BRANCH |-> "main",
                CI_COMMIT_AUTHOR |-> "dev", CI_COMMIT_SHA |-> ShaDigits,
                DRONE_BUILD_STATUS |-> "success", BAR |-> "two words"] :
        msg       \in Opt("CI_COMMIT_MESSAGE", {"", "line one\nline two"}),
        card      \in Opt("PLUGIN_USE_CARD", {"false"}),
        variables \in Opt("PLUGIN_VARIABLES",
                          {""} \cup CommaLists(VariableNameTokens, MaxVariableNames)),
        foo       \in Opt("FOO", {"1"}),
        pipeline  \in Opt("CI_PIPELINE_URL", {PipelineURL}),
        buttons   \in Opt("PLUGIN_BUTTONS", {"commit"})}

\* SpecPrevStatus: the status variable the README documents varies next to
\* the two the code reads.
PrevStatusEnvs ==
    {card @@ override @@ status @@ prev
            @@ [PLUGIN_WEBHOOK_URL |-> WebhookURL, CI_COMMIT_SHA |-> ShaDigits]
            @@ EnvBase :
        card     \in Opt("PLUGIN_USE_CARD", {"false"}),
        override \in Opt("PLUGIN_STATUS", {"failure", "success"}),
        status   \in Opt("DRONE_BUILD_STATUS", {"failure", "success"}),
        prev     \in Opt("CI_PREV_PIPELINE_STATUS", {"failure", "success"})}

StatusCodes == {200, 201, 204, 299, 302, 400, 404, 500}

Bodies ==
    { JSONObject("{\"code\":0,\"message\":\"success\"}",
                 [code |-> Num(0), message |-> Str("success")]),
      JSONObject("{\"code\":19001,\"msg\":\"param invalid\"}",
                 [code |-> Num(19001), msg |-> Str("param invalid")]),
      JSONObject("{\"code\":\"1\"}", [code |-> Str("1")]),
      JSONObject("{\"message\":\"ok\"}", [message |-> Str("ok")]),
      JSONOther("null", "null"),
      JSONOther("[{\"code\":1}]", "array"),
      JSONOther("<html>ok</html>", "invalid"),
      EmptyBody }

\* What http.Post returns: a response, or an error with a nil response, or
\* (when the redirect policy fails) an error with a response whose body is
\* already closed.
PostOutcomes ==
    [err : {FALSE}, isNil : {FALSE}, StatusCode : StatusCodes, Body : Bodies]
    \cup { [err |-> TRUE, isNil |-> TRUE, StatusCode |-> 0, Body |-> EmptyBody],
           [err |-> TRUE, isNil |-> FALSE, StatusCode |-> 302, Body |-> EmptyBody] }

NoResponse == [err |-> FALSE, isNil |-> TRUE, StatusCode |-> 0, Body |-> EmptyBody]

-----------------------------------------------------------------------------
(* The run. *)

InitRun(envs) ==
    /\ env \in envs
    /\ osExitStub \in BOOLEAN
    /\ pc = "main"
    /\ projectVersion = ""
    /\ message = <<>>
    /\ built = <<>>
    /\ messageBytes = <<>>
    /\ posts = <<>>
    /\ resp = NoResponse
    /\ body = EmptyBody
    /\ exitCalls = <<>>
    /\ exitStatus = NoExit
    /\ stdout = <<>>

Init == InitRun(DeliveryEnvs)

InitStatus == InitRun(StatusEnvs)

InitButtons == InitRun(ButtonEnvs)

InitPrevStatus == InitRun(PrevStatusEnvs)

InitContent == InitRun(ContentEnvs)

\* osExit(code), line 20: os.Exit ends the process, the stub of the tests
\* returns and the run goes on at next.
osExit(code, next) ==
    /\ exitCalls' = Append(exitCalls, code)
    /\ IF osExitStub
       THEN pc' = next /\ UNCHANGED exitStatus
       ELSE pc' = "exited" /\ exitStatus' = code

\* A run-time panic ends the process.
Panic == pc' = "panicked" /\ exitStatus' = PanicStatus

\* Lines 23-27
CheckWebhookURL ==
    /\ pc = "main"
    /\ IF getEnvOrDefault("PLUGIN_WEBHOOK_URL", "") = ""
       THEN /\ stdout' = Append(stdout, "Need to set Lark Webhook URL")
            /\ osExit(1, "version")
       ELSE /\ pc' = "version"
            /\ UNCHANGED <<stdout, exitCalls, exitStatus>>
    /\ UNCHANGED <<env, osExitStub, projectVersion, message, built,
                   messageBytes, posts, resp, body>>

\* Line 29
ResolveVersion ==
    /\ pc = "version"
    /\ IF getProjectVersion.panic
       THEN Panic /\ UNCHANGED projectVersion
       ELSE /\ projectVersion' = getProjectVersion.value
            /\ pc' = "build"
            /\ UNCHANGED exitStatus
    /\ UNCHANGED <<env, osExitStub, message, built, messageBytes, posts, resp,
                   body, exitCalls, stdout>>

\* Lines 32-40
BuildMessage ==
    /\ pc = "build"
    /\ IF useCard
       THEN /\ message' = createLarkCard(projectVersion)
            /\ built' = Append(built, "createLarkCard")
       ELSE /\ message' = createLarkTextMessage(projectVersion)
            /\ built' = Append(built, "createLarkTextMessage")
    /\ pc' = "sign"
    /\ UNCHANGED <<env, osExitStub, projectVersion, messageBytes, posts, resp,
                   body, exitCalls, exitStatus, stdout>>

\* Lines 42-48
AddSignature ==
    /\ pc = "sign"
    /\ \E now \in 0..MaxUnixTime : message' = WithSignature(message, now)
    /\ pc' = "marshal"
    /\ UNCHANGED <<env, osExitStub, projectVersion, built, messageBytes, posts,
                   resp, body, exitCalls, exitStatus, stdout>>

\* Lines 50-54
MarshalMessage ==
    /\ pc = "marshal"
    /\ messageBytes' = jsonMarshal(message).bytes
    /\ IF jsonMarshal(message).err
       THEN /\ stdout' = Append(stdout, "Error creating message JSON")
            /\ osExit(1, "info")
       ELSE /\ pc' = "info"
            /\ UNCHANGED <<stdout, exitCalls, exitStatus>>
    /\ UNCHANGED <<env, osExitStub, projectVersion, message, built, posts,
                   resp, body>>

\* Lines 56-60: printDebugInfo when PLUGIN_DEBUG is "true", then
\* printBuildInfo.
PrintInfo ==
    /\ pc = "info"
    /\ stdout' = stdout
                 \o (IF getEnvOrDefault("PLUGIN_DEBUG", "false") = "true"
                     THEN <<"** DEBUG ENABLED **">> ELSE <<>>)
                 \o <<"Build Info:">>
    /\ pc' = "send"
    /\ UNCHANGED <<env, osExitStub, projectVersion, message, built,
                   messageBytes, posts, resp, body, exitCalls, exitStatus>>

\* SendIfURL without the test of line 63.
SendIfURL_NoGuard ==
    /\ pc = "send"
    /\ pc' = "post"
    /\ UNCHANGED <<env, osExitStub, projectVersion, message, built,
                   messageBytes, posts, resp, body, exitCalls, exitStatus,
                   stdout>>

\* Lines 62-66: sendMessage is called only with a webhook URL; without one
\* main returns.
SendIfURL ==
    /\ pc = "send"
    /\ IF getEnvOrDefault("PLUGIN_WEBHOOK_URL", "") # ""
       THEN pc' = "post" /\ UNCHANGED exitStatus
       ELSE pc' = "returned" /\ exitStatus' = 0
    /\ UNCHANGED <<env, osExitStub, projectVersion, message, built,
                   messageBytes, posts, resp, body, exitCalls, stdout>>

\* Post trying again after a transport error instead of giving up.
Post_RetryOnError ==
    /\ pc = "post"
    /\ posts' = Append(posts, [url |-> getEnvOrDefault("PLUGIN_WEBHOOK_URL", ""),
                               contentType |-> "application/json",
                               body |-> messageBytes])
    /\ \E r \in PostOutcomes :
        /\ resp' = r
        /\ stdout' = Append(stdout, "Sending to Lark...")
        /\ pc' = IF r.err THEN "post" ELSE "read"
    /\ UNCHANGED <<env, osExitStub, projectVersion, message, built,
                   messageBytes, body, exitCalls, exitStatus>>

\* Lines 297-303
Post ==
    /\ pc = "post"
    /\ posts' = Append(posts, [url |-> getEnvOrDefault("PLUGIN_WEBHOOK_URL", ""),
                               contentType |-> "application/json",
                               body |-> messageBytes])
    /\ \E r \in PostOutcomes :
        /\ resp' = r
        /\ IF r.err
           THEN /\ stdout' = stdout \o <<"Sending to Lark...", "Error sending to Lark">>
                /\ osExit(1, "read")
           ELSE /\ stdout' = Append(stdout, "Sending to Lark...")
                /\ pc' = "read"
                /\ UNCHANGED <<exitCalls, exitStatus>>
    /\ UNCHANGED <<env, osExitStub, projectVersion, message, built,
                   messageBytes, body>>

\* Lines 304-306: resp.Body of a nil resp is a nil dereference.
ReadBody ==
    /\ pc = "read"
    /\ IF resp.isNil
       THEN Panic /\ UNCHANGED body
       ELSE body' = resp.Body /\ pc' = "status" /\ UNCHANGED exitStatus
    /\ UNCHANGED <<env, osExitStub, projectVersion, message, built,
                   messageBytes, posts, resp, exitCalls, stdout>>

\* Lines 308-311
CheckStatus ==
    /\ pc = "status"
    /\ IF BadStatus(resp.StatusCode)
       THEN /\ stdout' = Append(stdout, "Error response from Lark")
            /\ osExit(1, "parse")
       ELSE /\ pc' = "parse"
            /\ UNCHANGED <<stdout, exitCalls, exitStatus>>
    /\ UNCHANGED <<env, osExitStub, projectVersion, message, built,
                   messageBytes, posts, resp, body>>

\* Lines 313-320
ParseResponse ==
    /\ pc = "parse"
    /\ IF RemoteRejected(body)
       THEN /\ stdout' = Append(stdout, "Lark API error")
            /\ osExit(1, "done")
       ELSE /\ pc' = "done"
            /\ UNCHANGED <<stdout, exitCalls, exitStatus>>
    /\ UNCHANGED <<env, osExitStub, projectVersion, message, built,
                   messageBytes, posts, resp, body>>

\* Lines 322-323 and 65-66: sendMessage and then main return.
Done ==
    /\ pc = "done"
    /\ stdout' = Append(stdout, "Done!")
    /\ pc' = "returned"
    /\ exitStatus' = 0
    /\ UNCHANGED <<env, osExitStub, projectVersion, message, built,
                   messageBytes, posts, resp, body, exitCalls>>

Next ==
    \/ CheckWebhookURL
    \/ ResolveVersion
    \/ BuildMessage
    \/ AddSignature
    \/ MarshalMessage
    \/ PrintInfo
    \/ SendIfURL
    \/ Post
    \/ ReadBody
    \/ CheckStatus
    \/ ParseResponse
    \/ Done

Spec == Init /\ [][Next]_vars

SpecStatus == InitStatus /\ [][Next]_vars

SpecButtons == InitButtons /\ [][Next]_vars

SpecPrevStatus == InitPrevStatus /\ [][Next]_vars

SpecContent == InitContent /\ [][Next]_vars

-----------------------------------------------------------------------------
(* Properties. *)

Range(seq) == {seq[i] : i \in 1..Len(seq)}

HasPrefix(s, prefix) == SubSeq(s, 1, Len(prefix)) = prefix

Terminated == pc \in {"exited", "panicked", "returned"}

\* The steps of main after the message was built.
AfterBuild == pc \in {"sign", "marshal", "info", "send", "post", "read",
                      "status", "parse", "done", "returned"}
              \/ (pc \in {"exited", "panicked"} /\ built # <<>>)

\* The keys and values of a serialized payload.
PayloadKeys(bytes) == {bytes[i][1] : i \in 1..Len(bytes)}

PayloadValue(bytes, key) ==
    bytes[CHOOSE i \in 1..Len(bytes) : bytes[i][1] = key][2]

(* C1: the card and the text message indicate failure exactly when         *)
(* PLUGIN_STATUS is "failure", or PLUGIN_STATUS is unset or empty and      *)
(* DRONE_BUILD_STATUS is "failure"; every other pair of values, whatever   *)
(* its case or spelling, gives green / success; the two variants agree,    *)
(* and the message a run builds is the one this rule gives.                *)
FailureExpected ==
    \/ ("PLUGIN_STATUS" \in DOMAIN env /\ env["PLUGIN_STATUS"] = "failure")
    \/ /\ "PLUGIN_STATUS" \notin DOMAIN env \/ env["PLUGIN_STATUS"] = ""
       /\ "DRONE_BUILD_STATUS" \in DOMAIN env
       /\ env["DRONE_BUILD_STATUS"] = "failure"

CardIndicatesFailure(m) ==
    /\ m.card.header.template = "red"
    /\ Contains(m.card.header.title.content, "Pipeline Failed")

CardIndicatesSuccess(m) ==
    /\ m.card.header.template = "green"
    /\ Contains(m.card.header.title.content, "Pipeline Succeeded")
    /\ ~Contains(m.card.header.title.content, "Failed")

TextIndicatesFailure(m) ==
    HasPrefix(m.content.text, AlertIcon \o " PIPELINE FAILED\n")

TextIndicatesSuccess(m) ==
    HasPrefix(m.content.text, CheckIcon \o " PIPELINE SUCCEEDED\n")

IndicatesFailure(m) ==
    IF m.msg_type = "interactive" THEN CardIndicatesFailure(m)
    ELSE TextIndicatesFailure(m)

IndicatesSuccess(m) ==
    IF m.msg_type = "interactive" THEN CardIndicatesSuccess(m)
    ELSE TextIndicatesSuccess(m)

C1_StatusRule ==
    /\ IF FailureExpected
       THEN /\ CardIndicatesFailure(createLarkCard(projectVersion))
            /\ TextIndicatesFailure(createLarkTextMessage(projectVersion))
       ELSE /\ CardIndicatesSuccess(createLarkCard(projectVersion))
            /\ TextIndicatesSuccess(createLarkTextMessage(projectVersion))
    /\ AfterBuild =>
        IF FailureExpected THEN IndicatesFailure(message)
        ELSE IndicatesSuccess(message)

\* A run in which the override "failure" won over the pipeline's "success"
\* and the text message was built.
C1_Witness ==
    /\ Getenv("PLUGIN_STATUS") = "failure"
    /\ Getenv("DRONE_BUILD_STATUS") = "success"
    /\ built = <<"createLarkTextMessage">>
    /\ TextIndicatesFailure(message)
    /\ pc = "returned"

(* C2: without a webhook URL (unset or empty) no HTTP request is ever      *)
(* issued, exit status 1 is requested by the first step of main, and with  *)
(* os.Exit as the exit function the process ends there with status 1,      *)
(* whatever the other variables are.                                       *)
C2_MissingURLExitsWithoutPost ==
    ("PLUGIN_WEBHOOK_URL" \notin DOMAIN env \/ env["PLUGIN_WEBHOOK_URL"] = "")
        => /\ posts = <<>>
           /\ pc # "main" => exitCalls = <<1>>
           /\ (pc # "main" /\ ~osExitStub) =>
                /\ pc = "exited"
                /\ exitStatus = 1
                /\ built = <<>>
                /\ stdout = <<"Need to set Lark Webhook URL">>

C2_Witness ==
    /\ "PLUGIN_WEBHOOK_URL" \in DOMAIN env
    /\ env["PLUGIN_WEBHOOK_URL"] = ""
    /\ Getenv("PLUGIN_SECRET") # ""
    /\ pc = "exited"
    /\ exitStatus = 1

\* The response was received and CheckStatus has acted on it.
StatusChecked ==
    /\ posts # <<>>
    /\ ~resp.err
    /\ pc \in {"parse", "done", "returned", "exited"}

FailedOnStatus == "Error response from Lark" \in Range(stdout)

(* C3: the HTTP status fails the delivery exactly by its 2xx class: every  *)
(* status outside 200..299 makes sendMessage request exit status 1         *)
(* whatever the body is, and no status inside 200..299 does.               *)
C3_StatusFailsBy2xxClass ==
    StatusChecked =>
        /\ FailedOnStatus <=> resp.StatusCode \notin 200..299
        /\ FailedOnStatus => 1 \in Range(exitCalls)

\* The webhook answered 200 and ParseResponse has acted on the body.
Answered200 ==
    /\ posts # <<>>
    /\ ~resp.err
    /\ resp.StatusCode = 200
    /\ pc \in {"done", "returned", "exited"}

HasNumericNonZeroCode(b) ==
    /\ b.json.kind = "object"
    /\ "code" \in DOMAIN b.json.members
    /\ b.json.members["code"].type = "number"
    /\ b.json.members["code"].num # 0

(* C4: after an answer of HTTP 200, exit status 1 is requested exactly     *)
(* when the body is a JSON object whose code is a number other than 0, and *)
(* with os.Exit the process then ends with status 1; for code 0, no code,  *)
(* a code that is no number, or a body that is no JSON object, no exit is  *)
(* requested, "Done!" is printed and the process ends with status 0.       *)
C4_ExitByResponseCode ==
    Answered200 =>
        /\ exitCalls = IF HasNumericNonZeroCode(resp.Body) THEN <<1>> ELSE <<>>
        /\ ~osExitStub =>
            IF HasNumericNonZeroCode(resp.Body)
            THEN pc = "exited" /\ exitStatus = 1 /\ "Done!" \notin Range(stdout)
            ELSE /\ pc \in {"done", "returned"}
                 /\ pc = "returned" =>
                        exitStatus = 0 /\ stdout[Len(stdout)] = "Done!"

C4_Witness ==
    /\ Answered200
    /\ resp.Body.text = "{\"code\":\"1\"}"
    /\ ~osExitStub
    /\ pc = "returned"
    /\ exitStatus = 0

(* C5: a run issues at most one HTTP POST; when it has ended it has issued *)
(* exactly one if PLUGIN_WEBHOOK_URL is set and the payload was            *)
(* serialized, and none otherwise; no failure of the delivery is followed  *)
(* by a second request.                                                    *)
C5_AtMostOnePost ==
    /\ Len(posts) <= 1
    /\ Terminated =>
        Len(posts) = IF Getenv("PLUGIN_WEBHOOK_URL") # "" /\ messageBytes # <<>>
                     THEN 1 ELSE 0
    /\ \A i \in 1..Len(posts) :
        posts[i] = [url |-> env["PLUGIN_WEBHOOK_URL"],
                    contentType |-> "application/json",
                    body |-> messageBytes]

\* A run under the returning stub in which the delivery failed and the run
\* went on to its end without a second request.
C5_Witness ==
    /\ osExitStub
    /\ pc = "returned"
    /\ exitCalls # <<>>
    /\ Len(posts) = 1

CardWanted ==
    "PLUGIN_USE_CARD" \notin DOMAIN env \/ env["PLUGIN_USE_CARD"] \in {"", "true"}

\* The variant a set of top-level keys and a msg_type make up.
IsCard(keys, msgType) ==
    msgType = "interactive" /\ "card" \in keys /\ "content" \notin keys

IsText(keys, msgType) ==
    msgType = "text" /\ "content" \in keys /\ "card" \notin keys

(* C6: a run builds at most one message variant, and exactly one once it   *)
(* has reached the construction; the variant is the card when              *)
(* PLUGIN_USE_CARD is unset, empty or "true" and the text message for      *)
(* every other value; the message and every payload sent carry one         *)
(* variant, never both.                                                    *)
C6_OneVariantByUseCard ==
    /\ ~AfterBuild => built = <<>>
    /\ AfterBuild =>
        IF CardWanted
        THEN /\ built = <<"createLarkCard">>
             /\ IsCard(DOMAIN message, message.msg_type)
        ELSE /\ built = <<"createLarkTextMessage">>
             /\ IsText(DOMAIN message, message.msg_type)
    /\ \A i \in 1..Len(posts) :
        LET payload == posts[i].body
        IN  IF CardWanted
            THEN IsCard(PayloadKeys(payload), PayloadValue(payload, "msg_type"))
            ELSE IsText(PayloadKeys(payload), PayloadValue(payload, "msg_type"))

C6_Witness ==
    /\ Getenv("PLUGIN_USE_CARD") = "TRUE"
    /\ Len(posts) = 1
    /\ PayloadValue(posts[1].body, "msg_type") = "text"
    /\ "card" \notin PayloadKeys(posts[1].body)

SecretSet == "PLUGIN_SECRET" \in DOMAIN env /\ env["PLUGIN_SECRET"] # ""

\* The signature fields of a message or payload with the top-level keys
\* keys, timestamp and sign being its values at these two keys.
NoSignatureFields(keys) == "timestamp" \notin keys /\ "sign" \notin keys

SignatureFields(keys, timestamp, sign) ==
    /\ "timestamp" \in keys /\ "sign" \in keys
    /\ timestamp \in {FormatInt(n) : n \in 0..MaxUnixTime}
    /\ sign.enc = "base64"
    /\ sign.of.alg = "HMAC-SHA256"
    /\ sign.of.key = timestamp \o "\n" \o env["PLUGIN_SECRET"]
    /\ sign.of.data = ""

(* C7: after the signature step the message, and every payload sent,       *)
(* carries the top-level fields timestamp and sign exactly when            *)
(* PLUGIN_SECRET is non-empty, in card and in text mode, both or neither;  *)
(* sign is the signature of the timestamp of the same payload and the      *)
(* configured secret.                                                      *)
C7_SignatureFields ==
    /\ (AfterBuild /\ pc # "sign") =>
        IF SecretSet
        THEN SignatureFields(DOMAIN message, message.timestamp, message.sign)
        ELSE NoSignatureFields(DOMAIN message)
    /\ \A i \in 1..Len(posts) :
        LET payload == posts[i].body
        IN  IF SecretSet
            THEN SignatureFields(PayloadKeys(payload),
                                 PayloadValue(payload, "timestamp"),
                                 PayloadValue(payload, "sign"))
            ELSE NoSignatureFields(PayloadKeys(payload))

C7_Witness ==
    /\ SecretSet
    /\ Len(posts) = 1
    /\ PayloadValue(posts[1].body, "msg_type") = "text"
    /\ PayloadValue(posts[1].body, "timestamp") = "1"
    /\ PayloadValue(posts[1].body, "sign") = generateSignature("1", "s3cret")

\* getProjectVersion has returned to main.
VersionReturned == pc = "build" \/ AfterBuild

ExpectedVersion ==
    IF "CI_COMMIT_TAG" \in DOMAIN env /\ env["CI_COMMIT_TAG"] # ""
    THEN env["CI_COMMIT_TAG"]
    ELSE IF "CI_COMMIT_SHA" \in DOMAIN env /\ env["CI_COMMIT_SHA"] # ""
    THEN SubSeq(env["CI_COMMIT_SHA"], 1, 7)
    ELSE ""

(* C9: the version getProjectVersion returns is CI_COMMIT_TAG when that is *)
(* non-empty, whatever CI_COMMIT_SHA is; otherwise the first 7 characters  *)
(* of CI_COMMIT_SHA when that is non-empty; otherwise the empty string.    *)
(* It returns whenever there is a tag, no SHA, or a SHA of 7 characters or *)
(* more.                                                                   *)
C9_VersionRule ==
    /\ VersionReturned => projectVersion = ExpectedVersion
    /\ (pc = "version" /\ (Getenv("CI_COMMIT_TAG") # ""
                           \/ Getenv("CI_COMMIT_SHA") = ""
                           \/ Len(Getenv("CI_COMMIT_SHA")) >= 7)) =>
            /\ ~getProjectVersion.panic
            /\ getProjectVersion.value = ExpectedVersion

\* A SHA of more than 7 characters was cut to its first 7.
C9_Witness ==
    /\ "CI_COMMIT_TAG" \notin DOMAIN env
    /\ Getenv("CI_COMMIT_SHA") = "abcdef12"
    /\ pc = "build"
    /\ projectVersion = "abcdef1"

(* C10: version resolution never errors: for every CI_COMMIT_TAG and       *)
(* CI_COMMIT_SHA, a SHA of fewer than 7 characters included, no run aborts *)
(* in getProjectVersion (a run panics, if at all, only after its POST).    *)
C10_VersionNeverAborts == pc = "panicked" => posts # <<>>

-----------------------------------------------------------------------------
(* Properties of the buttons, checked under SpecButtons in the state that  *)
(* BuildMessage leaves (pc = "sign"), where message is the card.           *)

IsSet(key) == key \in DOMAIN env /\ env[key] # ""

NoAllowList == ~IsSet("PLUGIN_BUTTONS")

\* The buttons of a card: those of its action sections, in order.
RECURSIVE ActionsOfElements(_)
ActionsOfElements(elements) ==
    IF elements = <<>> THEN <<>>
    ELSE (IF Head(elements).tag = "action" THEN Head(elements).actions ELSE <<>>)
            \o ActionsOfElements(Tail(elements))

ActionsOf(m) == ActionsOfElements(m.card.elements)

Labels(actions) == [i \in 1..Len(actions) |-> actions[i].text.content]

PipelineButton ==
    [tag |-> "button", text |-> [content |-> "View Pipeline", tag |-> "plain_text"],
     type |-> "primary", url |-> env["CI_PIPELINE_URL"]]

ReleaseButton ==
    [tag |-> "button", text |-> [content |-> "View Release", tag |-> "plain_text"],
     type |-> "default",
     url |-> env["CI_REPO_URL"] \o "/releases/tag/" \o env["CI_COMMIT_TAG"]]

CommitButton ==
    [tag |-> "button", text |-> [content |-> "View Commit", tag |-> "plain_text"],
     type |-> "default", url |-> env["CI_PIPELINE_FORGE_URL"]]

(* C11: without an allow-list createActionButtons returns all built        *)
(* buttons: the primary 'View Pipeline' button to CI_PIPELINE_URL exactly  *)
(* when that is non-empty, and then first; the default 'View Release'      *)
(* button to {CI_REPO_URL}/releases/tag/{CI_COMMIT_TAG} exactly when tag   *)
(* and repository URL are non-empty, after the pipeline button.  Pipeline  *)
(* URL, tag and repository URL give (pipeline, release); pipeline URL and  *)
(* forge URL without a tag give (pipeline, commit).  The card holds the    *)
(* buttons returned.                                                       *)
C11_AllButtonsWithoutAllowList ==
    (pc = "sign" /\ NoAllowList) =>
        LET a == createActionButtons
        IN  /\ ActionsOf(message) = a
            /\ "View Pipeline" \in Range(Labels(a)) <=> IsSet("CI_PIPELINE_URL")
            /\ IsSet("CI_PIPELINE_URL") => a[1] = PipelineButton
            /\ "View Release" \in Range(Labels(a))
                    <=> (IsSet("CI_COMMIT_TAG") /\ IsSet("CI_REPO_URL"))
            /\ (IsSet("CI_COMMIT_TAG") /\ IsSet("CI_REPO_URL")) =>
                    a[IF IsSet("CI_PIPELINE_URL") THEN 2 ELSE 1] = ReleaseButton
            /\ (IsSet("CI_PIPELINE_URL") /\ IsSet("CI_COMMIT_TAG")
                    /\ IsSet("CI_REPO_URL")) =>
                    a = <<PipelineButton, ReleaseButton>>
            /\ (IsSet("CI_PIPELINE_URL") /\ IsSet("CI_PIPELINE_FORGE_URL")
                    /\ ~IsSet("CI_COMMIT_TAG")) =>
                    a = <<PipelineButton, CommitButton>>

C11_Witness ==
    /\ pc = "sign"
    /\ "PLUGIN_BUTTONS" \notin DOMAIN env
    /\ Labels(ActionsOf(message)) = <<"View Pipeline", "View Release">>

(* C12, as claimed: the 'View Commit' button is the alternative of the     *)
(* release button: whenever no 'View Release' button was appended (no tag, *)
(* or no repository URL) and CI_PIPELINE_FORGE_URL is non-empty, the       *)
(* default 'View Commit' button to the forge URL is appended; so a tag     *)
(* build without CI_REPO_URL and with a forge URL gets it.                 *)
C12_CommitWheneverNoRelease ==
    (pc = "sign" /\ NoAllowList) =>
        ((~(IsSet("CI_COMMIT_TAG") /\ IsSet("CI_REPO_URL"))
          /\ IsSet("CI_PIPELINE_FORGE_URL"))
            => CommitButton \in Range(ActionsOf(message)))

(* C12, amended: the 'View Commit' button is the alternative of the tag    *)
(* test: it is appended, as the last button, exactly when CI_COMMIT_TAG is *)
(* empty and CI_PIPELINE_FORGE_URL is non-empty; a tag build never gets    *)
(* it, so a tag build without CI_REPO_URL gets neither a release nor a     *)
(* commit button.                                                          *)
C12_CommitOnlyWithoutTag ==
    (pc = "sign" /\ NoAllowList) =>
        LET a == ActionsOf(message)
        IN  /\ "View Commit" \in Range(Labels(a))
                    <=> (~IsSet("CI_COMMIT_TAG") /\ IsSet("CI_PIPELINE_FORGE_URL"))
            /\ (~IsSet("CI_COMMIT_TAG") /\ IsSet("CI_PIPELINE_FORGE_URL")) =>
                    /\ a[Len(a)] = CommitButton
                    /\ Len(a) = IF IsSet("CI_PIPELINE_URL") THEN 2 ELSE 1
            /\ (IsSet("CI_COMMIT_TAG") /\ ~IsSet("CI_REPO_URL")) =>
                    Range(Labels(a)) \subseteq {"View Pipeline"}

\* A tag build with a forge URL and no repository URL: the pipeline button
\* alone.
C12_Witness ==
    /\ pc = "sign"
    /\ NoAllowList
    /\ IsSet("CI_COMMIT_TAG") /\ ~IsSet("CI_REPO_URL")
    /\ IsSet("CI_PIPELINE_FORGE_URL")
    /\ Labels(ActionsOf(message)) = <<"View Pipeline">>

\* The names of the allow-list, each trimmed.
AllowListNames ==
    LET tokens == Split(env["PLUGIN_BUTTONS"], ",")
    IN  {TrimSpace(tokens[i]) : i \in 1..Len(tokens)}

\* The category a button belongs to, by its label.
CategoryOf(button) ==
    CASE button.text.content = "View Pipeline" -> "pipeline"
      [] button.text.content = "View Commit"   -> "commit"
      [] button.text.content = "View Release"  -> "release"

\* The buttons the environment gives rise to before filtering (C11, C12).
ExpectedBuilt ==
    (IF IsSet("CI_PIPELINE_URL") THEN <<PipelineButton>> ELSE <<>>)
    \o (IF IsSet("CI_COMMIT_TAG")
        THEN (IF IsSet("CI_REPO_URL") THEN <<ReleaseButton>> ELSE <<>>)
        ELSE (IF IsSet("CI_PIPELINE_FORGE_URL") THEN <<CommitButton>> ELSE <<>>))

Named(button) == CategoryOf(button) \in AllowListNames

ElementTags(m) == [i \in 1..Len(m.card.elements) |-> m.card.elements[i].tag]

(* C13, as claimed: for every non-empty allow-list the buttons of the card *)
(* are the built buttons whose category the allow-list names, in the built *)
(* order (pipeline before commit-or-release), each at most once, whatever  *)
(* the order of the names and however often a name is repeated.            *)
C13_FilterKeepsBuiltOrder ==
    (pc = "sign" /\ IsSet("PLUGIN_BUTTONS")) =>
        ActionsOf(message) = SelectSeq(ExpectedBuilt, Named)

(* C14: a name of the allow-list that, trimmed, is not exactly pipeline,   *)
(* commit or release, or that names a category without a built button,     *)
(* contributes no button and requests no exit: every button of the card is *)
(* a built button whose category is a trimmed name of the list; when no    *)
(* name selects a built button the list is empty and the card has no       *)
(* action section.                                                         *)
C14_UnmatchedNamesDropped ==
    (pc = "sign" /\ IsSet("PLUGIN_BUTTONS")) =>
        LET a == ActionsOf(message)
        IN  /\ exitCalls = <<>>
            /\ \A i \in 1..Len(a) :
                    a[i] \in Range(ExpectedBuilt) /\ Named(a[i])
            /\ (\A i \in 1..Len(ExpectedBuilt) : ~Named(ExpectedBuilt[i])) =>
                    /\ createActionButtons = <<>>
                    /\ "action" \notin Range(ElementTags(message))
            /\ (\E i \in 1..Len(ExpectedBuilt) : Named(ExpectedBuilt[i])) =>
                    /\ a # <<>>
                    /\ ElementTags(message)[Len(message.card.elements)] = "action"

\* "pipeline" requested when only a commit button was built: no button and
\* no action section.
C14_Witness ==
    /\ pc = "sign"
    /\ IsSet("PLUGIN_BUTTONS") /\ env["PLUGIN_BUTTONS"] = "pipeline"
    /\ ~IsSet("CI_PIPELINE_URL") /\ ~IsSet("CI_COMMIT_TAG")
    /\ IsSet("CI_PIPELINE_FORGE_URL")
    /\ ExpectedBuilt = <<CommitButton>>
    /\ createActionButtons = <<>>
    /\ "action" \notin Range(ElementTags(message))

(* C20: the button list never holds both a 'View Release' and a 'View      *)
(* Commit' button, whatever the allow-list; without an allow-list it has   *)
(* at most 2 buttons; every button has a non-empty url.                    *)
C20_ReleaseXorCommit ==
    (pc = "sign") =>
        LET a == createActionButtons
        IN  /\ ActionsOf(message) = a
            /\ ~("View Release" \in Range(Labels(a))
                 /\ "View Commit" \in Range(Labels(a)))
            /\ NoAllowList => Len(a) <= 2
            /\ \A i \in 1..Len(a) : a[i].url # ""

\* Tag, repository URL and forge URL all set, no allow-list: release only.
C20_Witness ==
    /\ pc = "sign"
    /\ NoAllowList
    /\ IsSet("CI_PIPELINE_URL") /\ IsSet("CI_COMMIT_TAG")
    /\ IsSet("CI_REPO_URL") /\ IsSet("CI_PIPELINE_FORGE_URL")
    /\ Labels(createActionButtons) = <<"View Pipeline", "View Release">>

-----------------------------------------------------------------------------
(* The status variable of the README, checked under SpecPrevStatus.        *)

(* C15, as claimed: the status shown is taken from CI_PREV_PIPELINE_STATUS *)
(* as the README documents: without a PLUGIN_STATUS override, a run with   *)
(* CI_PREV_PIPELINE_STATUS "failure" builds a message (card or text) that  *)
(* indicates failure.                                                      *)
C15_PrevPipelineStatusShown ==
    (AfterBuild /\ ~IsSet("PLUGIN_STATUS")
        /\ Getenv("CI_PREV_PIPELINE_STATUS") = "failure")
            => IndicatesFailure(message)

-----------------------------------------------------------------------------
(* The content of the two formats, checked under SpecContent in the state  *)
(* that BuildMessage leaves.                                               *)

IsCardMessage(m) == m.msg_type = "interactive"

\* The part of a string before its first newline, and the part after it.
BeforeNewline(str) ==
    IF IndexOf(str, "\n") = 0 THEN str ELSE SubSeq(str, 1, IndexOf(str, "\n") - 1)

AfterNewline(str) ==
    IF IndexOf(str, "\n") = 0 THEN "" ELSE SubSeq(str, IndexOf(str, "\n") + 1, Len(str))

\* The lines of the text message; the seventh is the Message field.
TextLines(m) == Split(m.content.text, "\n")

(* C16: both formats render the first line of CI_COMMIT_MESSAGE only: the  *)
(* card's commit block is the heading followed by the part before the      *)
(* first newline, the text message's Message field is that part and is     *)
(* followed by an empty line, and what follows the first newline appears   *)
(* nowhere; an empty or unset message renders as empty and requests no     *)
(* exit.                                                                   *)
C16_FirstLineOfCommitMessage ==
    (pc = "sign") =>
        LET msg   == Getenv("CI_COMMIT_MESSAGE")
            first == BeforeNewline(msg)
            rest  == AfterNewline(msg)
        IN  /\ exitCalls = <<>>
            /\ IF IsCardMessage(message)
               THEN /\ message.card.elements[3].text.content
                            = "**Commit Message:**\n" \o first
                    /\ rest # "" =>
                        \A i \in 1..Len(message.card.elements) :
                            message.card.elements[i].tag = "div" =>
                                ~Contains(message.card.elements[i].text.content, rest)
               ELSE /\ TextLines(message)[7] = "Message: " \o first
                    /\ TextLines(message)[8] = ""
                    /\ rest # "" => ~Contains(message.content.text, rest)

\* A two-line commit message rendered in the text format.
C16_Witness ==
    /\ pc = "sign"
    /\ Getenv("CI_COMMIT_MESSAGE") = "line one\nline two"
    /\ ~IsCardMessage(message)
    /\ TextLines(message)[7] = "Message: line one"

(* C17: the elements of the card are the project block, a divider and the  *)
(* commit block, then a divider and the variables block exactly when       *)
(* PLUGIN_VARIABLES is non-empty, then one action section exactly when     *)
(* createActionButtons returns a non-empty list; their number is           *)
(* 3 + 2*(variables configured) + 1*(at least one button) and the action   *)
(* section, when present, is last.                                         *)
C17_CardElementOrder ==
    (pc = "sign" /\ IsCardMessage(message)) =>
        LET e == message.card.elements
            v == IF IsSet("PLUGIN_VARIABLES") THEN 1 ELSE 0
            b == IF createActionButtons # <<>> THEN 1 ELSE 0
        IN  /\ Len(e) = 3 + 2 * v + b
            /\ ElementTags(message)
                    = <<"div", "hr", "div">>
                        \o (IF v = 1 THEN <<"hr", "div">> ELSE <<>>)
                        \o (IF b = 1 THEN <<"action">> ELSE <<>>)
            /\ HasPrefix(e[1].text.content, "**Project:** ")
            /\ Contains(e[1].text.content, "\n**Version:** ")
            /\ HasPrefix(e[3].text.content, "**Commit Message:**\n")
            /\ v = 1 => HasPrefix(e[5].text.content, "**Variables:**\n")
            /\ b = 1 => /\ e[Len(e)].tag = "action"
                        /\ e[Len(e)].actions = createActionButtons
            /\ b = 0 => "action" \notin Range(ElementTags(message))

\* A card with all six elements.
C17_Witness ==
    /\ pc = "sign"
    /\ IsCardMessage(message)
    /\ IsSet("PLUGIN_VARIABLES")
    /\ ElementTags(message) = <<"div", "hr", "div", "hr", "div", "action">>

(* C18: with a non-empty PLUGIN_VARIABLES the variables block of either    *)
(* format has one entry per comma-separated token, in list order, showing  *)
(* the trimmed token and the environment value of the variable of that     *)
(* name, or nothing when it is unset; an empty token gives an entry with   *)
(* empty name and empty value; with PLUGIN_VARIABLES unset or empty there  *)
(* is no variables block.                                                  *)
C18_VariablesBlock ==
    (pc = "sign") =>
        IF IsSet("PLUGIN_VARIABLES")
        THEN LET tokens == Split(env["PLUGIN_VARIABLES"], ",")
                 n      == Len(tokens)
                 name(i)  == TrimSpace(tokens[i])
                 value(i) == IF name(i) \in DOMAIN env THEN env[name(i)] ELSE ""
             IN  IF IsCardMessage(message)
                 THEN LET lines == Split(message.card.elements[5].text.content, "\n")
                      IN  /\ Len(lines) = n + 2
                          /\ lines[1] = "**Variables:**"
                          /\ \A i \in 1..n :
                                lines[i + 1] = "* '" \o name(i) \o "': " \o value(i)
                          /\ lines[n + 2] = ""
                 ELSE LET lines == TextLines(message)
                      IN  /\ Len(lines) = 9 + n + (IF IsSet("CI_PIPELINE_URL") THEN 2 ELSE 1)
                          /\ lines[8] = ""
                          /\ lines[9] = "Variables:"
                          /\ \A i \in 1..n :
                                lines[9 + i] = "* " \o name(i) \o ": " \o value(i)
                          /\ lines[10 + n] = ""
        ELSE IF IsCardMessage(message)
             THEN \A i \in 1..Len(message.card.elements) :
                    message.card.elements[i].tag = "div" =>
                        ~Contains(message.card.elements[i].text.content, "Variables")
             ELSE ~Contains(message.content.text, "Variables")

\* The list "FOO,, BAR " with FOO unset, in the card: three entries, the
\* second with empty name and value.
C18_Witness ==
    /\ pc = "sign"
    /\ IsCardMessage(message)
    /\ Getenv("PLUGIN_VARIABLES") = "FOO,, BAR "
    /\ "FOO" \notin DOMAIN env
    /\ message.card.elements[5].text.content
            = "**Variables:**\n* 'FOO': \n* '': \n* 'BAR': two words\n"

-----------------------------------------------------------------------------
(* Failures and the exit function, checked under Spec.                     *)

\* The lines main and sendMessage print ahead of osExit(1).
Diagnostics ==
    {"Need to set Lark Webhook URL", "Error creating message JSON",
     "Error sending to Lark", "Error response from Lark", "Lark API error"}

(* C19, as claimed: every failure stops the run, with os.Exit and with an  *)
(* exit function that returns to its caller alike: exit status 1 is        *)
(* requested at most once, the diagnostic is printed before it, and once   *)
(* it has been requested no later step runs: nothing is printed after the  *)
(* diagnostic ('Done!' included), no response is read or interpreted, no   *)
(* request is issued and sendMessage does not panic.                       *)
C19_FailureStopsRun ==
    /\ Len(exitCalls) <= 1
    /\ exitCalls # <<>> =>
        /\ exitCalls = <<1>>
        /\ stdout # <<>> /\ stdout[Len(stdout)] \in Diagnostics
        /\ "Done!" \notin Range(stdout)
        /\ ~(pc = "panicked" /\ posts # <<>>)
        /\ stdout[Len(stdout)] = "Need to set Lark Webhook URL" =>
                built = <<>> /\ posts = <<>>

====
